---- MODULE Spec2Model ----
(***************************************************************************)
(* Azure storage driver (src/src/storage/azure/storage.c): the request     *)
(* signer, the request/response pipeline, the paginated listing and the    *)
(* pipelined recursive delete.                                             *)
(*                                                                         *)
(* Strings the driver cuts or joins (paths, blob names, prefixes) are      *)
(* sequences of one-character strings; every other string is a token.      *)
(* Header and query sets are sets of <<key, value>> pairs with one pair    *)
(* per key (the sorted key/value lists of the C code, whose order is a     *)
(* function of the keys).  A pointer that may be NULL is a record with a   *)
(* "null" flag, a request handle is an index into the log of requests      *)
(* issued by the running operation (0 is NULL).                            *)
(***************************************************************************)
EXTENDS Integers, Sequences, FiniteSets, TLC

\* ------------------------------------------------------------------ bounds
\* Pages a listing may run to: the server sends no marker on page MaxPages.
MaxPages == 3
\* Entries the server may put on the pages of one listing, all pages together.
MaxEntries == 2
\* Last reading of the clock (seconds).
MaxTime == 3
\* Bits of the file-id counter (uint64_t in the source): the counter runs
\* modulo 2^FileIdBits.
FileIdBits == 3
\* Write objects constructed on one driver.
MaxWrites == 3

\* ------------------------------------------------------- program constants
MSEC_PER_SEC == 1000
HTTP_RESPONSE_CODE_NOT_FOUND == 404
storageInfoLevelType == 1
storageInfoLevelBasic == 2

EMPTY_STR == <<>>
FSLASH_STR == <<"/">>

\* ------------------------------------------------------------- environment
\* Client timeouts (ms) a driver may be constructed with.
TimeoutSet == {1000, 1500}
\* expires_in values (s) the credential endpoint may answer.
ExpiresInSet == {1, 4}
\* Status codes a server may answer.
StatusSet == {200, 403, 404, 500}
\* Logical paths handed to list and pathRemove, files handed to info and remove.
PathSet == {<<"/">>, <<"/", "b">>}
FileSet == {<<"/", "f">>}
LevelSet == {storageInfoLevelType, storageInfoLevelBasic}
\* Key types and client timeouts a driver is constructed with.  The timeout is
\* read by the managed-identity branch of the signer alone (line 236).
ConfigSet == {<<"shared", 1000>>, <<"sas", 1000>>} \cup ({"auto"} \X TimeoutSet)

\* Leaf names the server gives the entries of a page: one per position, so
\* that no two entries of a listing share a name.
PageLetter == <<"p", "q", "r", "s", "t">>
EntryDigit == <<"1", "2", "3", "4", "5">>
\* The continuation marker the server may send with page k.
PageMarker == <<"m1", "m2", "m3", "m4", "m5">>

\* The SAS parameters parsed from the key at construction (line 868).
SasQuery == {<<"sig", <<"sas-sig">>>>, <<"sv", <<"sas-sv">>>>}

NoToken == [at |-> 0 - 1, ttl |-> 0]
NoError == [kind |-> "none", code |-> 0, verb |-> ""]
NoneMissing == [callback |-> FALSE, final |-> FALSE]
NoHeader == [contentLength |-> <<>>, lastModified |-> ""]
NoResponse == [awaited |-> FALSE, code |-> 0, allowMissing |-> FALSE, header |-> NoHeader]
NoResult == [kind |-> "none", exists |-> FALSE, size |-> 0, timeModified |-> 0, value |-> FALSE]

\* ------------------------------------------------------------------ strings
strSub(s, start) == SubSeq(s, start + 1, Len(s))
strSubN(s, start, size) == SubSeq(s, start + 1, start + size)

\* --------------------------------------------------------- header and query
HttpPut(kv, key, value) == {p \in kv : p[1] # key} \cup {<<key, value>>}
HttpHas(kv, key) == \E p \in kv : p[1] = key
HttpGet(kv, key) == (CHOOSE p \in kv : p[1] = key)[2]
HttpQueryMerge(kv, merge) == {p \in kv : ~HttpHas(merge, p[1])} \cup merge
NullQuery == [null |-> TRUE, kv |-> {}]
SomeQuery(kv) == [null |-> FALSE, kv |-> kv]
NullHeader == [null |-> TRUE, kv |-> {}]
SomeHeader(kv) == [null |-> FALSE, kv |-> kv]

httpResponseCodeOk(code) == code \div 100 = 2

\* -------------------------------------------------------------------- state
VARIABLES
    keyType,                    \* this->keyType, set at construction
    sharedKey,                  \* this->sharedKey
    sasKey,                     \* this->sasKey
    credHttpClient,             \* this->credHttpClient
    tag,                        \* this->tag, the tags rendered as a query string
    fileId,                     \* this->fileId
    written,                    \* the file ids handed to storageWriteAzureNew, in order
    timeout,                    \* httpClientTimeout(this->httpClient), ms
    now,                        \* the clock, time(NULL), in seconds
    accessToken,                \* this->accessToken
    accessTokenExpirationTime,  \* this->accessTokenExpirationTime
    lastAuth,                   \* locals of the latest storageAzureAuth call
    op,                         \* the running interface call and its arguments
    pc,                         \* where the running call stands
    query,                      \* storageAzureListInternal: query
    request,                    \* storageAzureListInternal: request
    syncRequest,                \* storageAzureRequest: request
    dataRequest,                \* StorageAzurePathRemoveData: request
    page,                       \* the response being processed
    entryIdx,                   \* entries of the page handed to the callback
    served,                     \* pages the server answered, in order
    delivered,                  \* StorageInfo records handed to the callback
    issued,                     \* requests issued by the running call
    missing,                    \* whether a DELETE answered not-found: in the callback, at the end
    error,                      \* the error the running call raised
    lastResponse,               \* status and allowMissing of the latest storageAzureResponse
    result                      \* what the interface call returned

authVars == <<now, accessToken, accessTokenExpirationTime, lastAuth>>
cfgVars == <<keyType, sharedKey, sasKey, credHttpClient, timeout, tag>>
writeVars == <<fileId, written>>
listVars == <<query, request, page, entryIdx, served, delivered>>
vars == <<keyType, sharedKey, sasKey, credHttpClient, timeout, tag, fileId, written, now, accessToken, accessTokenExpirationTime, lastAuth, op, pc,
          query, request, syncRequest, dataRequest, page, entryIdx, served, delivered,
          issued, missing, error, lastResponse, result>>

\* ------------------------------------------------------------------- signer
\* this->sharedKey and this->sasKey are set by the constructor's switch on the
\* key type and by nothing else.
sharedKeySet == sharedKey # "NULL"
sasKeySet == ~sasKey.null

\* Line 208: the cached token is replaced once the clock has reached its expiry.
AuthNeedsFetchStrict(timeBegin, expiry) == timeBegin > expiry
AuthNeedsFetchAlways(timeBegin, expiry) == TRUE
AuthNeedsFetch(timeBegin, expiry) == timeBegin >= expiry

\* Line 236: the margin taken off the token's life, in seconds.
ClientTimeoutPeriod(timeoutMs) == (timeoutMs \div MSEC_PER_SEC) * 2

\* Line 241.
TokenExpiration(timeBegin, expiresIn, timeoutMs) ==
    timeBegin + expiresIn - ClientTimeoutPeriod(timeoutMs)

\* Answers of the credential endpoint: a status and, in the JSON of a success,
\* the two fields the signer reads.
CredentialResponseSet ==
    {[code |-> 500, hasToken |-> FALSE, hasExpires |-> FALSE, expiresIn |-> 0]}
        \cup [code : {200}, hasToken : {TRUE}, hasExpires : {TRUE}, expiresIn : ExpiresInSet]
        \cup {[code |-> 200, hasToken |-> FALSE, hasExpires |-> TRUE, expiresIn |-> 0],
              [code |-> 200, hasToken |-> TRUE, hasExpires |-> FALSE, expiresIn |-> 0]}
NoCredential == [code |-> 0, hasToken |-> FALSE, hasExpires |-> FALSE, expiresIn |-> 0]

IsXMs(key) == key \in {"x-ms-blob-type", "x-ms-tags", "x-ms-version"}

\* Lines 142-195: what the shared key signs.
StringToSign(verb, path, q, dateTime, header) ==
    LET contentLength == HttpGet(header, "content-length")
    IN  <<verb,
          IF contentLength = <<"0">> THEN <<>> ELSE contentLength,
          IF HttpHas(header, "content-md5") THEN HttpGet(header, "content-md5") ELSE <<>>,
          dateTime,
          IF HttpHas(header, "range") THEN HttpGet(header, "range") ELSE <<>>,
          {p \in header : IsXMs(p[1])},
          "account", path,
          IF q.null THEN {} ELSE q.kv>>

\* Lines 258-260: the SAS parameters go into the query of the request.
SasQueryUnmerged(q) == q
SasQueryMerged(q) == SomeQuery(HttpQueryMerge(q.kv, sasKey.kv))

\* Lines 224-241: the cache is assigned after the status and both fields of the
\* answer have been checked.
CacheStoresBeforeChecks(fetch, raised) == fetch /\ raised.kind # "credential"
CacheStores(fetch, raised) == fetch /\ raised = NoError

\* Line 249: the Authorization value is made of this->accessToken as it is after
\* the fetch.
BearerTokenBeforeFetch(before, after) == before
BearerToken(before, after) == after

\* storageAzureAuth: the header and query after the call, the credential cache
\* after the call, and the error it raised.  timeBegin is the clock read at
\* line 206, cred the credential endpoint's answer should it be asked.
storageAzureAuth(verb, path, q, dateTime, httpHeader, timeBegin, cred) ==
    LET hostHeader == HttpPut(httpHeader, "host", <<"host">>)
        same == [err |-> NoError, header |-> hostHeader, query |-> q,
                 auth |-> [scheme |-> "none", token |-> NoToken, sig |-> <<>>],
                 token |-> accessToken, expiry |-> accessTokenExpirationTime,
                 timeBegin |-> timeBegin, fetched |-> FALSE,
                 headerBefore |-> httpHeader, queryBefore |-> q, cred |-> cred]
    IN  IF keyType = "shared" /\ sharedKeySet
        THEN LET header == HttpPut(HttpPut(hostHeader, "date", dateTime),
                                   "x-ms-version", <<"2019-12-12">>)
             IN  IF ~q.null /\ q.kv = {}
                 THEN [same EXCEPT !.err = [kind |-> "AssertError", code |-> 162, verb |-> ""]]
                 ELSE [same EXCEPT
                          !.header = HttpPut(header, "authorization", <<"SharedKey">>),
                          !.auth = [scheme |-> "SharedKey", token |-> NoToken,
                                    sig |-> StringToSign(verb, path, q, dateTime, header)]]
        ELSE IF keyType = "auto"
        THEN LET fetch == AuthNeedsFetch(timeBegin, accessTokenExpirationTime)
                 raised ==
                     IF ~fetch THEN NoError
                     ELSE IF ~httpResponseCodeOk(cred.code)
                     THEN [kind |-> "credential", code |-> cred.code, verb |-> ""]
                     ELSE IF ~cred.hasToken THEN [kind |-> "FormatError", code |-> 230, verb |-> ""]
                     ELSE IF ~cred.hasExpires THEN [kind |-> "FormatError", code |-> 234, verb |-> ""]
                     ELSE NoError
                 stored == CacheStores(fetch, raised)
                 token == IF stored THEN [at |-> timeBegin, ttl |-> cred.expiresIn]
                          ELSE accessToken
                 expiry == IF stored
                           THEN TokenExpiration(timeBegin, cred.expiresIn, timeout)
                           ELSE accessTokenExpirationTime
             IN  IF raised # NoError
                 THEN [same EXCEPT !.err = raised, !.fetched = TRUE,
                                   !.token = token, !.expiry = expiry]
                 ELSE [same EXCEPT
                          !.header = HttpPut(HttpPut(hostHeader, "x-ms-version", <<"2024-08-04">>),
                                             "authorization", <<"Bearer">>),
                          !.auth = [scheme |-> "Bearer", token |-> BearerToken(accessToken, token),
                                    sig |-> <<>>],
                          !.token = token, !.expiry = expiry, !.fetched = fetch]
        ELSE [same EXCEPT !.query = SasQueryMerged(q)]

\* ----------------------------------------------------------------- pipeline
\* Lines 834-837 for the host URI style: "/<container>".
pathPrefix == <<"/", "c">>

\* httpUriEncode(path, true) leaves letters, digits and "/" as they are, and the
\* paths of this model hold nothing else.
httpUriEncode(path) == path

NullParam == [null |-> TRUE, s |-> <<>>]
SomePath(s) == [null |-> FALSE, s |-> s]
NoContent == [null |-> TRUE, size |-> 0]
NoParam == [header |-> NullHeader, query |-> NullQuery, content |-> NoContent, tag |-> FALSE]

\* Lines 294-314: the header list of a request: a new list or a copy of the
\* caller's, with the content length, the MD5 of a body and the tags.
RequestHeaderHashesBytes(header, content, tagParam) ==
    LET withLength ==
            HttpPut(IF header.null THEN {} ELSE header.kv, "content-length",
                    IF content.null \/ content.size = 0 THEN <<"0">>
                    ELSE <<ToString(content.size)>>)
        withMd5 ==
            IF ~content.null /\ content.size > 0
            THEN HttpPut(withLength, "content-md5", <<"md5">>) ELSE withLength
    IN  IF tagParam /\ ~tag.null THEN HttpPut(withMd5, "x-ms-tags", tag.s) ELSE withMd5
RequestHeader(header, content, tagParam) ==
    LET withLength ==
            HttpPut(IF header.null THEN {} ELSE header.kv, "content-length",
                    IF content.null \/ content.size = 0 THEN <<"0">>
                    ELSE <<ToString(content.size)>>)
        withMd5 ==
            IF ~content.null THEN HttpPut(withLength, "content-md5", <<"md5">>) ELSE withLength
    IN  IF tagParam /\ ~tag.null THEN HttpPut(withMd5, "x-ms-tags", tag.s) ELSE withMd5

\* Lines 294-295 and 319-323: the signer works on copies, the header and the
\* query of the caller are as they were once the request is built.
CallerHeader(header, signed) == header
CallerQueryShared(q, signed) == IF q.null THEN q ELSE signed
CallerQuery(q, signed) == q

\* Lines 319-323: the query handed to the signer is a copy of the caller's, or a
\* new one when there is none and a SAS key is set.
RequestQueryKeepsNull(q) == q
RequestQuery(q) == IF sasKeySet /\ q.null THEN SomeQuery({}) ELSE q

\* storageAzureRequestAsync: the signer's outcome and the request it sends.
\* sync tells a request made through storageAzureRequest, which awaits it at once.
storageAzureRequestAsync(verb, path, header, q, content, tagParam, sync, timeBegin, cred) ==
    LET fullPath == IF path.null THEN pathPrefix ELSE pathPrefix \o path.s
        auth == storageAzureAuth(verb, httpUriEncode(fullPath), RequestQuery(q), <<"date">>,
                                 RequestHeader(header, content, tagParam), timeBegin, cred)
    IN  [auth |-> auth,
         param |-> [header |-> header, query |-> q, content |-> content, tag |-> tagParam],
         paramAfter |-> [header |-> CallerHeader(header, auth.header),
                         query |-> CallerQuery(q, auth.query)],
         request |-> [verb |-> verb, path |-> httpUriEncode(fullPath), query |-> auth.query,
                      sync |-> sync, fate |-> "outstanding"]]

\* Line 360: whether storageAzureResponse raises on a status.
ResponseRaisesStrict(code, allowMissing) == ~httpResponseCodeOk(code)
ResponseRaisesLenient(code, allowMissing) == ~httpResponseCodeOk(code) /\ ~allowMissing
ResponseRaises(code, allowMissing) ==
    ~httpResponseCodeOk(code) /\ (~allowMissing \/ code # HTTP_RESPONSE_CODE_NOT_FOUND)

\* The answers of the credential endpoint a signer call may meet: it is asked
\* only on the managed-identity branch, once the token has expired.
CredentialSet ==
    IF keyType = "auto" /\ AuthNeedsFetch(now, accessTokenExpirationTime)
    THEN CredentialResponseSet ELSE {NoCredential}

\* httpRequestError, line 361: the error names the request and the status.
HttpError(log, handle, code) == [kind |-> "http", code |-> code, verb |-> log[handle].verb]

\* The request log with the fate of one handle changed.
SetFate(log, handle, fate) == [log EXCEPT ![handle].fate = fate]
\* An error leaves the temp mem contexts of the call: a handle still outstanding
\* is neither awaited nor passed to httpRequestFree.
DropOutstanding(log) ==
    [i \in DOMAIN log |->
        IF log[i].fate = "outstanding" THEN [log[i] EXCEPT !.fate = "dropped"] ELSE log[i]]

Outstanding(log) == {i \in DOMAIN log : log[i].fate = "outstanding"}

\* The credential cache and the signer's locals after a signer call, with the
\* parameters of the request it was made for.
Signed(r) ==
    LET a == r.auth IN
    /\ now' = now
    /\ accessToken' = a.token
    /\ accessTokenExpirationTime' = a.expiry
    /\ lastAuth' = [called |-> TRUE, timeBegin |-> a.timeBegin,
                    expiryBefore |-> accessTokenExpirationTime, tokenBefore |-> accessToken,
                    fetched |-> a.fetched, err |-> a.err, auth |-> a.auth,
                    headerBefore |-> a.headerBefore, header |-> a.header,
                    queryBefore |-> a.queryBefore, query |-> a.query,
                    cred |-> a.cred, issuedBefore |-> Len(issued),
                    param |-> r.param, paramAfter |-> r.paramAfter]

\* An error propagates out of the interface call.
Raise(err, log) ==
    /\ pc' = "failed"
    /\ error' = err
    /\ issued' = DropOutstanding(log)
    /\ request' = 0
    /\ syncRequest' = 0
    /\ dataRequest' = 0

\* ------------------------------------------------------------------ listing
\* Line 421.
BasePrefix(path) == IF Len(path) = 1 THEN EMPTY_STR ELSE strSub(path, 1) \o <<"/">>

\* Lines 427-437: exprPrefix is regExpPrefix(expression), NULL when there is none.
QueryPrefix(path, exprPrefix) ==
    IF exprPrefix.null THEN BasePrefix(path)
    ELSE IF BasePrefix(path) = EMPTY_STR THEN exprPrefix.s
    ELSE BasePrefix(path) \o exprPrefix.s

\* Lines 439-454.
ListQuery(path, exprPrefix, recurse) ==
    (IF recurse THEN {} ELSE {<<"delimiter", FSLASH_STR>>})
        \cup {<<"restype", <<"container">>>>, <<"comp", <<"list">>>>}
        \cup (IF QueryPrefix(path, exprPrefix) = EMPTY_STR THEN {}
              ELSE {<<"prefix", QueryPrefix(path, exprPrefix)>>})

\* What the server may answer as page k of a listing under a query prefix: the
\* Blobs element with BlobPrefix and Blob children in any interleaving, each
\* named under the prefix, and NextMarker, absent or empty on the last page.
RECURSIVE EntryCount(_)
EntryCount(pages) ==
    IF pages = <<>> THEN 0 ELSE Len(Head(pages).entries) + EntryCount(Tail(pages))
PageShapes ==
    UNION {[1..n -> {"BlobPrefix", "Blob"}] : n \in 0..(MaxEntries - EntryCount(served))}
PageEntry(prefix, kind, k, i) ==
    [kind |-> kind,
     name |-> prefix \o <<PageLetter[k], EntryDigit[i]>>
                  \o (IF kind = "BlobPrefix" THEN <<"/">> ELSE <<>>),
     size |-> 10 * k + i]
PageMarkers(k) ==
    {NullParam, SomePath(EMPTY_STR)}
        \cup (IF k < MaxPages THEN {SomePath(<<PageMarker[k]>>)} ELSE {})
PageSet(prefix, k) ==
    {[blobs |-> TRUE,
      entries |-> [i \in DOMAIN shape |-> PageEntry(prefix, shape[i], k, i)],
      marker |-> m] : shape \in PageShapes, m \in PageMarkers(k)}
        \cup {[blobs |-> FALSE, entries |-> <<>>, marker |-> m] : m \in PageMarkers(k)}
NoPage == [blobs |-> TRUE, entries |-> <<>>, marker |-> NullParam]

IsPrefix(e) == e.kind = "BlobPrefix"
IsBlob(e) == e.kind = "Blob"
\* Lines 499 and 525: the two child lists, each in document order.
BlobPrefixList(pg) == SelectSeq(pg.entries, IsPrefix)
FileListReversed(pg) ==
    LET files == SelectSeq(pg.entries, IsBlob)
    IN  [i \in 1..Len(files) |-> files[Len(files) + 1 - i]]
FileList(pg) == SelectSeq(pg.entries, IsBlob)
\* Lines 501-556: the order in which the entries of a page reach the callback.
CallbackOrderDocument(pg) == pg.entries
CallbackOrder(pg) == BlobPrefixList(pg) \o FileList(pg)

\* Lines 506-518 and 532-552: the StorageInfo of an entry.
EntryInfo(e, basePrefix, level) ==
    IF e.kind = "BlobPrefix"
    THEN [name |-> strSubN(e.name, Len(basePrefix), Len(e.name) - Len(basePrefix) - 1),
          type |-> IF level >= storageInfoLevelType THEN "path" ELSE "file",
          size |-> 0]
    ELSE [name |-> IF basePrefix # EMPTY_STR THEN strSub(e.name, Len(basePrefix)) ELSE e.name,
          type |-> "file",
          size |-> IF level >= storageInfoLevelBasic THEN e.size ELSE 0]

\* Line 748 and line 719: the path a visited file is deleted at.
RemoveRootKeepsSlash(path) == path
RemoveRoot(path) == IF path = FSLASH_STR THEN EMPTY_STR ELSE path
RemovePath(path, name) == RemoveRoot(path) \o <<"/">> \o name

NoOp == [name |-> "none", path |-> <<>>, level |-> 0, recurse |-> FALSE, exprPrefix |-> NullParam,
         allowMissing |-> FALSE]

\* ------------------------------------------------------------ initial state
NoAuth == [called |-> FALSE, timeBegin |-> 0, expiryBefore |-> 0, tokenBefore |-> NoToken,
           fetched |-> FALSE, err |-> NoError,
           auth |-> [scheme |-> "none", token |-> NoToken, sig |-> <<>>],
           headerBefore |-> {}, header |-> {}, queryBefore |-> NullQuery, query |-> NullQuery,
           cred |-> NoCredential, issuedBefore |-> 0,
           param |-> NoParam, paramAfter |-> [header |-> NullHeader, query |-> NullQuery]]

\* No call is running: the locals of the interface functions hold nothing.
Idle ==
    /\ op' = NoOp
    /\ pc' = "idle"
    /\ query' = {}
    /\ request' = 0
    /\ syncRequest' = 0
    /\ dataRequest' = 0
    /\ page' = NoPage
    /\ entryIdx' = 0
    /\ served' = <<>>
    /\ delivered' = <<>>
    /\ issued' = <<>>
    /\ missing' = NoneMissing
    /\ error' = NoError
    /\ lastResponse' = NoResponse
    /\ result' = NoResult

\* Lines 849-871: the key material the constructor's switch leaves in the object,
\* whose other key fields stay NULL.
KeyMaterialFallsThrough(type) ==
    [sharedKey |-> IF type \in {"auto", "shared"} THEN "key" ELSE "NULL",
     sasKey |-> IF type = "sas" THEN SomeQuery(SasQuery) ELSE NullQuery,
     credHttpClient |-> IF type = "auto" THEN "client" ELSE "NULL"]
KeyMaterial(type) ==
    [sharedKey |-> IF type = "shared" THEN "key" ELSE "NULL",
     sasKey |-> IF type = "sas" THEN SomeQuery(SasQuery) ELSE NullQuery,
     credHttpClient |-> IF type = "auto" THEN "client" ELSE "NULL"]

\* Lines 841-847: the tag set a driver may be configured with, NULL when none.
TagSet == {NullParam, SomePath(<<"k=v">>)}
\* Line 890: the starting file id is random.
FileIdSet == 0..(2^FileIdBits - 1)

\* storageAzureNew: the object is zeroed but for what the constructor sets.
storageAzureNew(type, timeoutMs, tagKv, seed) ==
    /\ keyType = type
    /\ timeout = timeoutMs
    /\ tag = tagKv
    /\ fileId = seed
    /\ written = <<>>
    /\ sharedKey = KeyMaterial(keyType).sharedKey
    /\ sasKey = KeyMaterial(keyType).sasKey
    /\ credHttpClient = KeyMaterial(keyType).credHttpClient
    /\ now = 0
    /\ accessToken = NoToken
    /\ accessTokenExpirationTime = 0
    /\ lastAuth = NoAuth
    /\ op = NoOp
    /\ pc = "idle"
    /\ query = {}
    /\ request = 0
    /\ syncRequest = 0
    /\ dataRequest = 0
    /\ page = NoPage
    /\ entryIdx = 0
    /\ served = <<>>
    /\ delivered = <<>>
    /\ issued = <<>>
    /\ missing = NoneMissing
    /\ error = NoError
    /\ lastResponse = NoResponse
    /\ result = NoResult

\* A driver without tags; its file id is not read by the calls of Next.
Init == \E cfg \in ConfigSet : storageAzureNew(cfg[1], cfg[2], NullParam, 0)

\* A driver with any tag configuration and any starting file id.
InitWrite ==
    \E cfg \in ConfigSet, tagKv \in TagSet, seed \in FileIdSet :
        storageAzureNew(cfg[1], cfg[2], tagKv, seed)

\* ------------------------------------------------------------------ actions
\* storageAzureRequest, lines 386-387, for a call that issues one request.
SingleRequest(name, verb, file, level, param, allowMissing) ==
    /\ pc = "idle"
    /\ op' = [NoOp EXCEPT !.name = name, !.path = file, !.level = level,
                          !.allowMissing = allowMissing]
    /\ \E cred \in CredentialSet :
        LET r == storageAzureRequestAsync(verb, SomePath(file), param.header, param.query,
                                          param.content, param.tag, TRUE, now, cred)
        IN  /\ Signed(r)
            /\ IF r.auth.err # NoError
               THEN Raise(r.auth.err, issued)
               ELSE /\ issued' = Append(issued, r.request)
                    /\ syncRequest' = Len(issued) + 1
                    /\ pc' = "sync"
                    /\ UNCHANGED <<request, dataRequest, error>>
    /\ UNCHANGED <<cfgVars, writeVars, listVars, missing, lastResponse, result>>

\* storageAzureInfo, line 584.
StorageAzureInfo ==
    \E file \in FileSet, level \in LevelSet :
        SingleRequest("info", "HEAD", file, level, NoParam, TRUE)

\* storageAzureRemove, line 778.
StorageAzureRemove ==
    \E file \in FileSet : SingleRequest("remove", "DELETE", file, 0, NoParam, TRUE)

\* The parameters the read and write objects may call storageAzureRequest with.
ContentSet == {NoContent, [null |-> FALSE, size |-> 0], [null |-> FALSE, size |-> 3]}
ParamSet ==
    [header : {NullHeader, SomeHeader({<<"x-ms-blob-type", <<"BlockBlob">>>>})},
     query : {NullQuery, SomeQuery({<<"comp", <<"block">>>>})},
     content : ContentSet,
     tag : BOOLEAN]

\* storageAzureRequest, lines 386-387, called from outside the driver.
StorageAzureRequest ==
    \E file \in FileSet, param \in ParamSet, allowMissing \in BOOLEAN :
        SingleRequest("request", "PUT", file, 0, param, allowMissing)

\* Line 680: the file id a write object is given, and the counter after it.
FileIdPassed(id) == id
FileIdModulus == 2^FileIdBits
FileIdNextSame(id) == id
FileIdNext(id) == (id + 1) % FileIdModulus

\* storageAzureNewWrite.
StorageAzureNewWrite ==
    /\ pc = "idle"
    /\ Len(written) < MaxWrites
    /\ written' = Append(written, FileIdPassed(fileId))
    /\ fileId' = FileIdNext(fileId)
    /\ UNCHANGED <<cfgVars, authVars, op, pc, listVars, syncRequest, dataRequest, issued,
                   missing, error, lastResponse, result>>

\* Lines 592-593: the conversions of the two headers of a HEAD response.
DigitValue(c) == CHOOSE d \in 0..9 : ToString(d) = c
RECURSIVE cvtZToUInt64(_)
cvtZToUInt64(z) ==
    IF z = <<>> THEN 0 ELSE 10 * cvtZToUInt64(SubSeq(z, 1, Len(z) - 1)) + DigitValue(z[Len(z)])
httpDateToTime(date) ==
    CASE date = "Thu, 01 Jan 1970 00:00:09 GMT" -> 9
      [] date = "Thu, 01 Jan 1970 00:01:00 GMT" -> 60

\* The headers a HEAD response may carry.
HeadHeaderSet ==
    [contentLength : {<<"7">>, <<"1", "2">>},
     lastModified : {"Thu, 01 Jan 1970 00:00:09 GMT", "Thu, 01 Jan 1970 00:01:00 GMT"}]

\* Lines 587-594: the StorageInfo that storageAzureInfo returns.
storageAzureInfoAlwaysExists(level, code, header) ==
    [kind |-> "info", exists |-> TRUE,
     size |-> IF level >= storageInfoLevelBasic THEN cvtZToUInt64(header.contentLength) ELSE 0,
     timeModified |-> IF level >= storageInfoLevelBasic
                      THEN httpDateToTime(header.lastModified) ELSE 0,
     value |-> FALSE]
storageAzureInfo(level, code, header) ==
    LET exists == httpResponseCodeOk(code)
        basic == level >= storageInfoLevelBasic /\ exists
    IN  [kind |-> "info", exists |-> exists,
         size |-> IF basic THEN cvtZToUInt64(header.contentLength) ELSE 0,
         timeModified |-> IF basic THEN httpDateToTime(header.lastModified) ELSE 0,
         value |-> FALSE]

\* Line 759.
PathRemoveReturnsVisited == \E i \in DOMAIN delivered : delivered[i].type = "file"
PathRemoveReturns == TRUE

\* storageAzureRequest, lines 388-390, for a call that issues one request.
SingleResponse ==
    /\ pc = "sync"
    /\ op.name \in {"info", "remove", "request"}
    /\ \E code \in StatusSet, header \in HeadHeaderSet \cup {NoHeader} :
        /\ header # NoHeader <=> (op.name = "info" /\ httpResponseCodeOk(code))
        /\ lastResponse' = [awaited |-> TRUE, code |-> code, allowMissing |-> op.allowMissing,
                            header |-> header]
        /\ IF ResponseRaises(code, op.allowMissing)
           THEN /\ Raise(HttpError(issued, syncRequest, code),
                         SetFate(issued, syncRequest, "awaited"))
                /\ UNCHANGED result
           ELSE /\ issued' = SetFate(issued, syncRequest, "freed")
                /\ syncRequest' = 0
                /\ pc' = "done"
                /\ result' = IF op.name = "info"
                             THEN storageAzureInfo(op.level, code, header) ELSE NoResult
                /\ UNCHANGED <<request, dataRequest, error>>
    /\ UNCHANGED <<cfgVars, writeVars, authVars, op, listVars, missing>>

\* storageAzureList, lines 633-635, and storageAzureListInternal to line 457.
StorageAzureList ==
    /\ pc = "idle"
    /\ \E path \in PathSet, level \in LevelSet, expr \in {NullParam, SomePath(<<"x">>)} :
        /\ op' = [name |-> "list", path |-> path, level |-> level, recurse |-> FALSE,
                  exprPrefix |-> expr]
        /\ query' = ListQuery(path, expr, FALSE)
    /\ pc' = "listTop"
    /\ UNCHANGED <<cfgVars, writeVars, authVars, request, syncRequest, dataRequest, page, entryIdx,
                   served, delivered, issued, missing, error, lastResponse, result>>

\* storageAzurePathRemove, lines 742-751, and storageAzureListInternal to line 457.
StorageAzurePathRemove ==
    /\ pc = "idle"
    /\ \E path \in PathSet :
        /\ op' = [name |-> "pathRemove", path |-> path, level |-> storageInfoLevelType,
                  recurse |-> TRUE, exprPrefix |-> NullParam]
        /\ query' = ListQuery(path, NullParam, TRUE)
    /\ pc' = "listTop"
    /\ UNCHANGED <<cfgVars, writeVars, authVars, request, syncRequest, dataRequest, page, entryIdx,
                   served, delivered, issued, missing, error, lastResponse, result>>

\* Line 468: whether the loop has a request of the iteration before to await.
ListTopAwaitsNever == FALSE
ListTopAwaits == request # 0

\* Lines 482-483: the content of the NextMarker element of a page, which the
\* listing protocol makes optional: a page without the element names no next page.
continuationMarker(pg) == IF pg.marker.null THEN EMPTY_STR ELSE pg.marker.s

\* Line 487: the marker replaces the one of the page before in the query.
MarkerQueryAdds(q, marker) == q \cup {<<"marker", marker>>}
MarkerQuery(q, marker) == HttpPut(q, "marker", marker)

\* Line 485: whether the page names a next one.
HasMarkerNever(pg) == FALSE
HasMarker(pg) == continuationMarker(pg) # EMPTY_STR

\* Line 477, first half: no request is outstanding, the page is asked for with
\* storageAzureRequest.
ListInternalRequest ==
    /\ pc = "listTop"
    /\ ~ListTopAwaits
    /\ \E cred \in CredentialSet :
        LET r == storageAzureRequestAsync("GET", NullParam, NullHeader, SomeQuery(query),
                                          NoContent, FALSE, TRUE, now, cred)
        IN  /\ Signed(r)
            /\ query' = r.paramAfter.query.kv
            /\ IF r.auth.err # NoError
               THEN Raise(r.auth.err, issued)
               ELSE /\ issued' = Append(issued, r.request)
                    /\ syncRequest' = Len(issued) + 1
                    /\ pc' = "sync"
                    /\ UNCHANGED <<request, dataRequest, error>>
    /\ UNCHANGED <<cfgVars, writeVars, op, page, entryIdx, served, delivered, missing,
                   lastResponse, result>>

\* The answer to a list request whose handle is awaited: an error status raises
\* (line 361, no allowMissing), a success carries a page.
ListAwait(handle) ==
    \E code \in StatusSet :
        /\ lastResponse' = [awaited |-> TRUE, code |-> code, allowMissing |-> FALSE,
                            header |-> NoHeader]
        /\ IF ResponseRaises(code, FALSE)
           THEN /\ Raise(HttpError(issued, handle, code), SetFate(issued, handle, "awaited"))
                /\ UNCHANGED <<page, served>>
           ELSE /\ \E pg \in PageSet(QueryPrefix(op.path, op.exprPrefix), Len(served) + 1) :
                    /\ page' = pg
                    /\ served' = Append(served, pg)
             /\ issued' = SetFate(issued, handle, "freed")
             /\ request' = 0
             /\ syncRequest' = 0
             /\ pc' = "listParse"
             /\ UNCHANGED <<dataRequest, error>>

\* Line 477, second half (storageAzureRequest, lines 388-390).
ListInternalSyncResponse ==
    /\ pc = "sync"
    /\ op.name \in {"list", "pathRemove"}
    /\ ListAwait(syncRequest)
    /\ UNCHANGED <<cfgVars, writeVars, authVars, op, query, entryIdx, delivered, missing, result>>

\* Lines 468-474: the outstanding request is awaited and freed.
ListInternalResponse ==
    /\ pc = "listTop"
    /\ ListTopAwaits
    /\ ListAwait(request)
    /\ UNCHANGED <<cfgVars, writeVars, authVars, op, query, entryIdx, delivered, missing, result>>

\* Lines 479-498: the marker is read and, when there is one, the next page is
\* asked for; then the Blobs element is looked up, which raises when it is absent.
ListInternalMarker ==
    /\ pc = "listParse"
    /\ IF HasMarker(page)
       THEN \E cred \in CredentialSet :
                LET marked == MarkerQuery(query, continuationMarker(page))
                    r == storageAzureRequestAsync("GET", NullParam, NullHeader, SomeQuery(marked),
                                                  NoContent, FALSE, FALSE, now, cred)
                    log == Append(issued, r.request)
                IN  /\ Signed(r)
                    /\ query' = r.paramAfter.query.kv
                    /\ IF r.auth.err # NoError
                       THEN Raise(r.auth.err, issued)
                       ELSE IF ~page.blobs
                       THEN Raise([kind |-> "FormatError", code |-> 498, verb |-> ""], log)
                       ELSE /\ issued' = log
                            /\ request' = Len(log)
                            /\ pc' = "listEntries"
                            /\ UNCHANGED <<syncRequest, dataRequest, error>>
       ELSE /\ query' = query
            /\ UNCHANGED authVars
            /\ IF ~page.blobs
               THEN Raise([kind |-> "FormatError", code |-> 498, verb |-> ""], issued)
               ELSE /\ pc' = "listEntries"
                    /\ UNCHANGED <<issued, request, syncRequest, dataRequest, error>>
    /\ entryIdx' = 0
    /\ UNCHANGED <<cfgVars, writeVars, op, page, served, delivered, missing, lastResponse, result>>

\* The entry the callback is invoked on next.
NextInfoStripsQueryPrefix ==
    EntryInfo(CallbackOrder(page)[entryIdx + 1], QueryPrefix(op.path, op.exprPrefix), op.level)
NextInfo == EntryInfo(CallbackOrder(page)[entryIdx + 1], BasePrefix(op.path), op.level)
MoreEntriesSkipsLast == entryIdx + 1 < Len(CallbackOrder(page))
MoreEntries == entryIdx < Len(CallbackOrder(page))

\* Lines 521 and 555 with storageAzureListCallback.
ListCallback ==
    /\ pc = "listEntries"
    /\ op.name = "list"
    /\ MoreEntries
    /\ delivered' = Append(delivered, NextInfo)
    /\ entryIdx' = entryIdx + 1
    /\ UNCHANGED <<cfgVars, writeVars, authVars, op, pc, query, request, syncRequest, dataRequest,
                   page, served, issued, missing, error, lastResponse, result>>

\* Line 706: whether the callback has the DELETE of an earlier entry to await.
CallbackAwaitsNever == FALSE
CallbackAwaits == dataRequest # 0

\* Line 714: only files are deleted.
DeletesAnyType(info) == TRUE
DeletesType(info) == info.type = "file"

\* Line 754: whether a DELETE is left to await once the listing has returned.
FinalAwaitsNever == FALSE
FinalAwaits == dataRequest # 0

\* Lines 521 and 555 with storageAzurePathRemoveCallback: the DELETE of the entry
\* before is awaited, then the entry's own is issued when it is a file.
PathRemoveCallback ==
    /\ pc = "listEntries"
    /\ op.name = "pathRemove"
    /\ MoreEntries
    /\ delivered' = Append(delivered, NextInfo)
    /\ entryIdx' = entryIdx + 1
    /\ \E code \in (IF CallbackAwaits THEN StatusSet ELSE {200}) :
        LET awaited == IF CallbackAwaits THEN SetFate(issued, dataRequest, "freed") ELSE issued
        IN  /\ lastResponse' = IF CallbackAwaits
                               THEN [awaited |-> TRUE, code |-> code, allowMissing |-> TRUE,
                                     header |-> NoHeader]
                               ELSE lastResponse
            /\ IF CallbackAwaits /\ ResponseRaises(code, TRUE)
               THEN /\ Raise(HttpError(issued, dataRequest, code),
                             SetFate(issued, dataRequest, "awaited"))
                    /\ UNCHANGED <<authVars, missing>>
               ELSE /\ missing' = IF CallbackAwaits /\ ~httpResponseCodeOk(code)
                                  THEN [missing EXCEPT !.callback = TRUE] ELSE missing
                    /\ IF DeletesType(NextInfo)
                       THEN \E cred \in CredentialSet :
                               LET r == storageAzureRequestAsync(
                                            "DELETE", SomePath(RemovePath(op.path, NextInfo.name)),
                                            NullHeader, NullQuery, NoContent, FALSE, FALSE, now,
                                            cred)
                               IN  /\ Signed(r)
                                   /\ IF r.auth.err # NoError
                                      THEN Raise(r.auth.err, awaited)
                                      ELSE /\ issued' = Append(awaited, r.request)
                                           /\ dataRequest' = Len(awaited) + 1
                                           /\ UNCHANGED <<pc, request, syncRequest, error>>
                       ELSE /\ issued' = awaited
                            /\ dataRequest' = 0
                            /\ UNCHANGED <<authVars, pc, request, syncRequest, error>>
    /\ UNCHANGED <<cfgVars, writeVars, op, query, page, served, result>>

\* Line 560: the loop goes on while a request for a next page is outstanding.
LoopContinuesAlways == TRUE
LoopContinues == request # 0

\* Line 560 and the return from storageAzureListInternal.
ListInternalLoop ==
    /\ pc = "listEntries"
    /\ ~MoreEntries
    /\ pc' = IF LoopContinues THEN "listTop"
             ELSE IF op.name = "list" THEN "done" ELSE "removeFinal"
    /\ UNCHANGED <<cfgVars, writeVars, authVars, op, query, request, syncRequest, dataRequest, page,
                   entryIdx, served, delivered, issued, missing, error, lastResponse, result>>

\* Lines 753-759: the last DELETE is awaited, and true is returned.
PathRemoveFinal ==
    /\ pc = "removeFinal"
    /\ IF FinalAwaits
       THEN \E code \in StatusSet :
                /\ lastResponse' = [awaited |-> TRUE, code |-> code, allowMissing |-> TRUE,
                                    header |-> NoHeader]
                /\ IF ResponseRaises(code, TRUE)
                   THEN /\ Raise(HttpError(issued, dataRequest, code),
                                 SetFate(issued, dataRequest, "awaited"))
                        /\ UNCHANGED <<missing, result>>
                   ELSE /\ issued' = SetFate(issued, dataRequest, "awaited")
                        /\ missing' = IF httpResponseCodeOk(code) THEN missing
                                      ELSE [missing EXCEPT !.final = TRUE]
                        /\ pc' = "done"
                        /\ result' = [NoResult EXCEPT !.kind = "bool",
                                                      !.value = PathRemoveReturns]
                        /\ UNCHANGED <<request, syncRequest, dataRequest, error>>
       ELSE /\ pc' = "done"
            /\ result' = [NoResult EXCEPT !.kind = "bool", !.value = PathRemoveReturns]
            /\ UNCHANGED <<issued, missing, request, syncRequest, dataRequest, error,
                           lastResponse>>
    /\ UNCHANGED <<cfgVars, writeVars, authVars, op, query, page, entryIdx, served, delivered>>

\* The interface call has returned or raised; the driver takes the next call.
Return ==
    /\ pc \in {"done", "failed"}
    /\ Idle
    /\ lastAuth' = NoAuth
    /\ UNCHANGED <<cfgVars, writeVars, now, accessToken, accessTokenExpirationTime>>

Next ==
    \/ StorageAzureInfo
    \/ StorageAzureRemove
    \/ StorageAzureRequest
    \/ SingleResponse
    \/ StorageAzureList
    \/ StorageAzurePathRemove
    \/ ListInternalRequest
    \/ ListInternalSyncResponse
    \/ ListInternalResponse
    \/ ListInternalMarker
    \/ ListCallback
    \/ PathRemoveCallback
    \/ ListInternalLoop
    \/ PathRemoveFinal
    \/ Return

\* Interface calls made within one second of the clock.
Spec == Init /\ [][Next]_vars

\* A second passes.
Tick ==
    /\ now < MaxTime
    /\ now' = now + 1
    /\ UNCHANGED <<cfgVars, writeVars, accessToken, accessTokenExpirationTime, lastAuth, op, pc, listVars,
                   syncRequest, dataRequest, issued, missing, error, lastResponse, result>>

\* Calls that issue a single request, made as the clock advances.
NextClock ==
    \/ Tick
    \/ StorageAzureInfo
    \/ StorageAzureRemove
    \/ SingleResponse
    \/ Return

SpecClock == Init /\ [][NextClock]_vars

\* Write objects are constructed and call storageAzureRequest.
NextWrite ==
    \/ StorageAzureNewWrite
    \/ StorageAzureRequest
    \/ StorageAzureInfo
    \/ StorageAzureRemove
    \/ SingleResponse
    \/ Return

SpecWrite == InitWrite /\ [][NextWrite]_vars

\* Listings alone.
NextList ==
    \/ StorageAzureList
    \/ ListInternalRequest
    \/ ListInternalSyncResponse
    \/ ListInternalResponse
    \/ ListInternalMarker
    \/ ListCallback
    \/ ListInternalLoop
    \/ Return

\* A driver of each key type, with the shortest client timeout.
InitList ==
    \E cfg \in ConfigSet : cfg[2] = 1000 /\ storageAzureNew(cfg[1], cfg[2], NullParam, 0)

\* The driver runs on one thread that takes its next step whenever it has one,
\* and every request is answered.
SpecList == InitList /\ [][NextList]_vars /\ WF_vars(NextList)

\* ------------------------------------------------------------------- properties
\* storageAzureListInternal has returned to its caller.
ListingReturned ==
    \/ op.name = "list" /\ pc = "done"
    \/ op.name = "pathRemove" /\ pc \in {"removeFinal", "done"}
Listing == op.name \in {"list", "pathRemove"}

\* The entries of the pages served, by page and place in the page.
ServedPositions == UNION {{<<k, i>> : i \in DOMAIN served[k].entries} : k \in DOMAIN served}
ServedEntry(pos) == served[pos[1]].entries[pos[2]]
\* The StorageInfo d is the one of the served entry e: the same kind, and the
\* name of e with the base prefix (and the "/" that ends a prefix) taken off.
InfoOf(d, e) ==
    /\ (d.type = "path") = (e.kind = "BlobPrefix")
    /\ e.name = BasePrefix(op.path) \o d.name \o (IF e.kind = "BlobPrefix" THEN <<"/">> ELSE <<>>)
DeliveriesOf(pos) == {j \in DOMAIN delivered : InfoOf(delivered[j], ServedEntry(pos))}

\* C1: a listing hands the callback only entries the server returned and none of
\* them twice, and once it has returned over its N pages it has handed over
\* every entry of every page exactly once.
C1_EachEntryOnce ==
    Listing =>
        /\ \A j \in DOMAIN delivered : \E pos \in ServedPositions : j \in DeliveriesOf(pos)
        /\ \A pos \in ServedPositions : Cardinality(DeliveriesOf(pos)) <= 1
        /\ ListingReturned =>
            /\ \A pos \in ServedPositions : Cardinality(DeliveriesOf(pos)) = 1
            /\ Len(delivered) = Cardinality(ServedPositions)

C1_Witness ==
    /\ op.name = "list"
    /\ pc = "done"
    /\ Len(served) = 2
    /\ HasMarker(served[1])
    /\ Len(delivered) = 2
    /\ \E j \in DOMAIN delivered : delivered[j].type = "path"

ListRequests == {i \in DOMAIN issued : issued[i].verb = "GET"}

\* C2: a listing over N pages issues N list requests, the first through the
\* synchronous storageAzureRequest and the others asynchronously, and at no time
\* is more than one of them issued and not yet awaited.
C2_ListRequestCount ==
    Listing =>
        /\ Cardinality({i \in ListRequests : issued[i].fate = "outstanding"}) <= 1
        /\ Cardinality(ListRequests) <= Len(served) + 1
        /\ \A i \in ListRequests : issued[i].sync = (i = 1)
        /\ ListingReturned => Cardinality(ListRequests) = Len(served)

C2_Witness ==
    /\ ListingReturned
    /\ Len(served) = 2
    /\ Cardinality(ListRequests) = 2
    /\ \E i \in ListRequests : ~issued[i].sync

IsDelete(r) == r.verb = "DELETE"
IsFileInfo(d) == d.type = "file"
DeleteRequests == SelectSeq(issued, IsDelete)
VisitedFiles == SelectSeq(delivered, IsFileInfo)
\* The path a visited file is to be deleted at: '<path>/<name>', and '/<name>'
\* under the root, below the container.
FilePath(path, name) ==
    pathPrefix \o (IF path = <<"/">> THEN <<"/">> \o name ELSE path \o <<"/">> \o name)

\* C3: in a recursive path removal the DELETE requests issued are, in order, the
\* visited file entries at their full paths: none for a directory, none twice,
\* and none missing unless the walk has failed on the entry last visited.
C3_DeletesFollowVisits ==
    op.name = "pathRemove" =>
        /\ Len(DeleteRequests) <= Len(VisitedFiles)
        /\ \A i \in DOMAIN DeleteRequests :
            DeleteRequests[i].path = FilePath(op.path, VisitedFiles[i].name)
        /\ pc # "failed" => Len(DeleteRequests) = Len(VisitedFiles)

C3_Witness ==
    /\ op.name = "pathRemove"
    /\ pc = "done"
    /\ op.path = <<"/">>
    /\ Len(VisitedFiles) >= 2
    /\ Len(DeleteRequests) = Len(VisitedFiles)

\* C4: a recursive path removal never fails on a DELETE that answers success or
\* not-found, in the callback or at the final await, so with any subset of the
\* DELETEs answering not-found the walk issues the DELETE of every file served
\* and returns.
C4_MissingTolerated ==
    op.name = "pathRemove" =>
        /\ (pc = "failed" /\ error.kind = "http" /\ error.verb = "DELETE") =>
                error.code \notin {200, HTTP_RESPONSE_CODE_NOT_FOUND}
        /\ pc = "done" =>
            /\ error = NoError
            /\ Len(DeleteRequests)
                   = Cardinality({pos \in ServedPositions : ServedEntry(pos).kind = "Blob"})

C4_Witness ==
    /\ op.name = "pathRemove"
    /\ pc = "done"
    /\ missing.callback
    /\ missing.final
    /\ Len(DeleteRequests) >= 2

\* C5: with a managed identity the signer asks the credential endpoint exactly
\* when the clock has reached the cached expiry, which is 0 until a token is
\* stored; a call before the expiry leaves the cache alone and signs with the
\* cached token, a call that fetches signs with the token fetched by that call.
C5_FetchIffExpired ==
    keyType = "auto" =>
        /\ accessToken = NoToken => accessTokenExpirationTime = 0
        /\ lastAuth.called =>
            /\ lastAuth.fetched = (lastAuth.timeBegin >= lastAuth.expiryBefore)
            /\ ~lastAuth.fetched =>
                /\ lastAuth.tokenBefore # NoToken
                /\ accessToken = lastAuth.tokenBefore
                /\ accessTokenExpirationTime = lastAuth.expiryBefore
                /\ lastAuth.auth.token = lastAuth.tokenBefore
            /\ (lastAuth.fetched /\ lastAuth.err = NoError) =>
                /\ accessToken.at = lastAuth.timeBegin
                /\ lastAuth.auth.token = accessToken

\* A call one second before the expiry of a token fetched earlier.
C5_Witness ==
    /\ keyType = "auto"
    /\ lastAuth.called
    /\ ~lastAuth.fetched
    /\ lastAuth.timeBegin = lastAuth.expiryBefore - 1
    /\ lastAuth.timeBegin > lastAuth.tokenBefore.at

\* C6: the cached expiry of a token fetched at T with expires_in E is T + E - 2C
\* for the client timeout C, whatever the timeout (held in milliseconds) and E.
C6_ExpiryIsExact ==
    (keyType = "auto" /\ accessToken # NoToken) =>
        accessTokenExpirationTime * MSEC_PER_SEC
            = (accessToken.at + accessToken.ttl) * MSEC_PER_SEC - 2 * timeout

\* C7: no request is signed with a token at a time inside the window of 2C before
\* the token's expiry: it is signed before T + E - 2C.
C7_SignedBeforeWindow ==
    (keyType = "auto" /\ lastAuth.called /\ lastAuth.err = NoError) =>
        lastAuth.timeBegin * MSEC_PER_SEC
            < (lastAuth.auth.token.at + lastAuth.auth.token.ttl) * MSEC_PER_SEC - 2 * timeout

OutstandingOf(verb) == {i \in Outstanding(issued) : issued[i].verb = verb}

\* C8, as stated: never more than one exchange issued and not yet awaited.
C8_OneOutstanding == Cardinality(Outstanding(issued)) <= 1

\* C8, amended: info, remove and list have at most one exchange outstanding; a
\* recursive path removal has at most two, and when it has two they are the
\* request for the next page and one DELETE.
C8_OutstandingBounded ==
    /\ op.name # "pathRemove" => Cardinality(Outstanding(issued)) <= 1
    /\ op.name = "pathRemove" =>
        /\ Cardinality(Outstanding(issued)) <= 2
        /\ Cardinality(Outstanding(issued)) = 2 =>
            /\ Cardinality(OutstandingOf("GET")) = 1
            /\ Cardinality(OutstandingOf("DELETE")) = 1

C8_Witness ==
    /\ op.name = "pathRemove"
    /\ pc = "listEntries"
    /\ Cardinality(OutstandingOf("GET")) = 1
    /\ Cardinality(OutstandingOf("DELETE")) = 1

DeleteHandles == {i \in DOMAIN issued : issued[i].verb = "DELETE"}

\* C9: in a recursive path removal at most one DELETE is in flight, and it is the
\* one the callback data holds; every DELETE issued before another was awaited
\* and freed first; and every file visited has its DELETE, unless the walk
\* failed on that visit.
C9_OneDeleteInFlight ==
    op.name = "pathRemove" =>
        /\ Cardinality(OutstandingOf("DELETE")) <= 1
        /\ OutstandingOf("DELETE") \subseteq {dataRequest}
        /\ (dataRequest # 0 /\ pc # "done") => dataRequest \in OutstandingOf("DELETE")
        /\ \A i, j \in DeleteHandles : i < j => issued[i].fate = "freed"
        /\ pc # "failed" => Cardinality(DeleteHandles) = Len(VisitedFiles)

C9_Witness ==
    /\ op.name = "pathRemove"
    /\ pc = "listEntries"
    /\ Cardinality(DeleteHandles) = 2
    /\ dataRequest \in OutstandingOf("DELETE")
    /\ \E i \in DeleteHandles : issued[i].fate = "freed"

Exited == pc \in {"done", "failed"}
Dropped == {i \in DOMAIN issued : issued[i].fate = "dropped"}

\* C10, as stated: on every exit, by return or by error, every handle issued was
\* awaited or released with httpRequestFree.
C10_AwaitedOrFreedOnExit ==
    Exited => \A i \in DOMAIN issued : issued[i].fate \in {"awaited", "freed"}

\* C10, amended: on a return every handle issued was awaited; on an exit by error
\* the handles still outstanding, at most the request for the next page and one
\* DELETE, are neither awaited nor passed to httpRequestFree but left to the
\* memory context that holds them, and every other handle was awaited.
C10_HandlesOnExit ==
    /\ pc = "done" => \A i \in DOMAIN issued : issued[i].fate \in {"awaited", "freed"}
    /\ pc = "failed" =>
        /\ \A i \in DOMAIN issued : issued[i].fate \in {"awaited", "freed", "dropped"}
        /\ Cardinality(Dropped) <= 2
        /\ \A i, j \in Dropped : i # j => issued[i].verb # issued[j].verb
        /\ \A i \in Dropped : ~issued[i].sync

\* An error in the callback with the request for the next page outstanding.
C10_Witness ==
    /\ pc = "failed"
    /\ op.name = "pathRemove"
    /\ error.verb = "DELETE"
    /\ \E i \in Dropped : issued[i].verb = "GET"

\* The running call was left by the error of a storageAzureResponse.
ResponseRaised == pc = "failed" /\ error.kind = "http"

\* C11: storageAzureResponse raises exactly when the status is not a success and
\* it is not the case that allowMissing is set and the status is 404: a 404 with
\* allowMissing is returned, any other failure with allowMissing is raised, and
\* without allowMissing every failure, 404 included, is raised.
C11_RaisesUnlessMissingAllowed ==
    lastResponse.awaited =>
        /\ ResponseRaised <=>
               /\ ~httpResponseCodeOk(lastResponse.code)
               /\ ~(lastResponse.allowMissing /\ lastResponse.code = 404)
        /\ ResponseRaised => error.code = lastResponse.code
        /\ (lastResponse.allowMissing /\ lastResponse.code = 404) => ~ResponseRaised
        /\ (lastResponse.allowMissing /\ lastResponse.code \in {403, 500}) => ResponseRaised
        /\ (~lastResponse.allowMissing /\ lastResponse.code \in {403, 404, 500}) => ResponseRaised

\* A 403 met by an await that allows a missing file.
C11_Witness ==
    /\ lastResponse.awaited
    /\ lastResponse.code = 403
    /\ lastResponse.allowMissing
    /\ ResponseRaised

InfoAnswered == op.name = "info" /\ lastResponse.awaited

\* C12, as stated: storageAzureInfo returns for every status, with exists = false
\* and no error for every status that is not a success, and with exists = true and
\* the size and modified time of the response headers for a success.
C12_NonSuccessIsAbsent ==
    InfoAnswered =>
        /\ pc = "done"
        /\ result.kind = "info"
        /\ result.exists = httpResponseCodeOk(lastResponse.code)
        /\ result.exists =>
            /\ result.size = cvtZToUInt64(lastResponse.header.contentLength)
            /\ result.timeModified = httpDateToTime(lastResponse.header.lastModified)

\* C12, amended: a 404 to the HEAD request is returned as exists = false without
\* an error; every other status that is not a success raises the request error; a
\* success is returned as exists = true, with the size and modified time of the
\* response headers when the level asked for is basic or above and with neither
\* below that level.
C12_InfoResult ==
    InfoAnswered =>
        /\ lastResponse.code = 404 =>
            /\ pc = "done"
            /\ result = [NoResult EXCEPT !.kind = "info"]
        /\ lastResponse.code \in {403, 500} =>
            /\ ResponseRaised
            /\ result = NoResult
        /\ lastResponse.code = 200 =>
            /\ pc = "done"
            /\ result.kind = "info"
            /\ result.exists
            /\ op.level >= storageInfoLevelBasic =>
                /\ lastResponse.header.contentLength = <<"7">> => result.size = 7
                /\ lastResponse.header.contentLength = <<"1", "2">> => result.size = 12
                /\ lastResponse.header.lastModified = "Thu, 01 Jan 1970 00:00:09 GMT"
                       => result.timeModified = 9
                /\ lastResponse.header.lastModified = "Thu, 01 Jan 1970 00:01:00 GMT"
                       => result.timeModified = 60
            /\ op.level < storageInfoLevelBasic =>
                /\ result.size = 0
                /\ result.timeModified = 0

\* The HEAD request of an info call answered 404.
C12_Witness ==
    /\ InfoAnswered
    /\ lastResponse.code = 404
    /\ pc = "done"
    /\ ~result.exists

\* The page being processed names a next page.
PageNamesNext == ~page.marker.null /\ page.marker.s # EMPTY_STR
\* Entries of the pages before the one being processed.
EntriesBefore == EntryCount(SubSeq(served, 1, Len(served) - 1))

\* C13: in a listing, when page k names a next page, the request for page k + 1
\* is issued before the first callback of page k and is still unawaited through
\* the callbacks of page k; the response of page k + 1 is awaited only after every
\* entry of page k has been handed to the callback.
C13_NextPagePipelined ==
    Listing =>
        /\ (pc = "listEntries" /\ PageNamesNext) =>
            /\ request # 0
            /\ issued[request].verb = "GET"
            /\ issued[request].fate = "outstanding"
            /\ Cardinality(ListRequests) = Len(served) + 1
        /\ pc = "listEntries" =>
            /\ Len(delivered) = EntriesBefore + entryIdx
            /\ Cardinality({i \in ListRequests : issued[i].fate # "outstanding"}) = Len(served)
        /\ Len(served) > 0 => Len(delivered) >= EntriesBefore

\* The second page awaited after the callbacks of a first page with entries.
C13_Witness ==
    /\ Listing
    /\ pc = "listEntries"
    /\ Len(served) = 2
    /\ Len(served[1].entries) > 0
    /\ Len(delivered) = Len(served[1].entries)

IsGet(r) == r.verb = "GET"
ListRequestSeq == SelectSeq(issued, IsGet)
PageNames(pg) == ~pg.marker.null /\ pg.marker.s # EMPTY_STR

\* C14: once the marker of page k has been read, a page with a non-empty marker m
\* has a follow-up list request whose query is the first request's with the marker
\* parameter set to m, in place of any earlier marker; a page with no marker or an
\* empty one has no follow-up request and is the last page; and the listing
\* returns only after a page without a marker, with every entry delivered.
C14_MarkersFollowed ==
    Listing =>
        /\ \A k \in 1..Len(served) :
            (k < Len(served) \/ pc \in {"listEntries", "listTop", "removeFinal", "done"}) =>
                IF PageNames(served[k])
                THEN /\ Len(ListRequestSeq) >= k + 1
                     /\ ListRequestSeq[k + 1].query.kv
                            = {p \in ListRequestSeq[1].query.kv : p[1] # "marker"}
                                  \cup {<<"marker", served[k].marker.s>>}
                ELSE /\ Len(ListRequestSeq) = k
                     /\ k = Len(served)
                     /\ pc # "listTop"
        /\ pc \in {"removeFinal", "done"} =>
            /\ Len(served) >= 1
            /\ ~PageNames(served[Len(served)])
            /\ Len(delivered) = EntryCount(served)

\* A listing of three pages, the first two with a marker, has returned.
C14_Witness ==
    /\ Listing
    /\ pc = "done"
    /\ Len(served) = 3
    /\ PageNames(served[1])
    /\ PageNames(served[2])
    /\ served[1].marker # served[2].marker

\* The name the server gave the entry at a position, below the query prefix, and
\* the base prefix of the two logical paths a listing is asked for.
LeafName(pos) == <<PageLetter[pos[1]], EntryDigit[pos[2]]>>
LiteralPrefix == IF op.exprPrefix.null THEN <<>> ELSE op.exprPrefix.s
LogicalBase == IF op.path = <<"/">> THEN <<>> ELSE <<"b", "/">>

\* C15: a directory entry named '<base>sub/' is delivered as 'sub' and a file entry
\* named '<base>file' as 'file', where <base> is the prefix of the logical path
\* alone, also when the query prefix carries the literal prefix of an expression:
\* that literal stays in the relative name; with an empty base nothing is taken
\* off the front of a name.
C15_RelativeNames ==
    Listing =>
        \A j \in DOMAIN delivered :
            \E pos \in ServedPositions :
                LET e == ServedEntry(pos)
                    d == delivered[j]
                    rel == LiteralPrefix \o LeafName(pos)
                IN  /\ d.name = rel
                    /\ (d.type = "path") = (e.kind = "BlobPrefix")
                    /\ e.kind = "BlobPrefix" => e.name = LogicalBase \o d.name \o <<"/">>
                    /\ e.kind = "Blob" => e.name = LogicalBase \o d.name
                    /\ (op.path = <<"/">> /\ e.kind = "Blob") => d.name = e.name

\* A directory and a file delivered from below a path, under an expression prefix.
C15_Witness ==
    /\ op.name = "list"
    /\ op.path = <<"/", "b">>
    /\ ~op.exprPrefix.null
    /\ \E j \in DOMAIN delivered : delivered[j].type = "path"
    /\ \E j \in DOMAIN delivered : delivered[j].type = "file"

\* C16: whenever storageAzurePathRemove returns it returns true, also when the
\* listing visited no file and when DELETE requests answered not-found; a DELETE
\* makes the call fail only by raising on a status the not-found tolerance does
\* not cover.
C16_PathRemoveReturnsTrue ==
    op.name = "pathRemove" =>
        /\ pc = "done" =>
            /\ result.kind = "bool"
            /\ result.value = TRUE
        /\ pc # "done" => result = NoResult
        /\ (pc = "failed" /\ error.kind = "http" /\ error.verb = "DELETE") =>
            error.code \in {403, 500}

\* A path removal that found no file has returned.
C16_Witness ==
    /\ op.name = "pathRemove"
    /\ pc = "done"
    /\ VisitedFiles = <<>>
    /\ result.value = TRUE

SasSigned == keyType = "sas" /\ lastAuth.called

\* C17, as stated: in SAS mode the signer merges the SAS parameters into the
\* query and the header set after the call is the header set before it.
C17_SasHeaderUnchanged ==
    SasSigned =>
        /\ SasQuery \subseteq lastAuth.query.kv
        /\ lastAuth.header = lastAuth.headerBefore

\* C17, amended: in SAS mode the signer merges the SAS parameters into the query,
\* keeping every other parameter, and changes one header: it sets Host, as it
\* does in every mode; it adds no Authorization, date or version header.
C17_SasSetsHostOnly ==
    SasSigned =>
        /\ lastAuth.err = NoError
        /\ SasQuery \subseteq lastAuth.query.kv
        /\ \A p \in lastAuth.queryBefore.kv : p[1] \notin {"sig", "sv"} => p \in lastAuth.query.kv
        /\ \A p \in lastAuth.query.kv : p \in SasQuery \/ p \in lastAuth.queryBefore.kv
        /\ lastAuth.header = lastAuth.headerBefore \cup {<<"host", <<"host">>>>}
        /\ ~\E p \in lastAuth.headerBefore : p[1] = "host"
        /\ ~\E p \in lastAuth.header : p[1] \in {"authorization", "date", "x-ms-version"}

\* A list request signed in SAS mode.
C17_Witness ==
    /\ SasSigned
    /\ Listing
    /\ \E p \in lastAuth.queryBefore.kv : p[1] = "marker"
    /\ lastAuth.header # lastAuth.headerBefore

\* The key material of the object matches its key type, and the latest signer call
\* took the branch of the key type.
ModeHeld ==
    /\ keyType \in {"shared", "sas", "auto"}
    /\ (sharedKey # "NULL") = (keyType = "shared")
    /\ (~sasKey.null) = (keyType = "sas")
    /\ (credHttpClient # "NULL") = (keyType = "auto")
    /\ lastAuth.fetched => keyType = "auto"
    /\ (lastAuth.called /\ lastAuth.err = NoError) =>
        /\ (lastAuth.auth.scheme = "SharedKey") = (keyType = "shared")
        /\ (lastAuth.auth.scheme = "Bearer") = (keyType = "auto")
        /\ (lastAuth.auth.scheme = "none") = (keyType = "sas")
        /\ (<<"authorization", <<"SharedKey">>>> \in lastAuth.header) = (keyType = "shared")
        /\ (<<"authorization", <<"Bearer">>>> \in lastAuth.header) = (keyType = "auto")
        /\ (\E p \in lastAuth.header : p[1] = "authorization") = (keyType # "sas")
        /\ (SasQuery \subseteq lastAuth.query.kv) = (keyType = "sas")

\* C18: one of the three modes is active for the life of the object: the key type
\* and the key material never change after construction, the material present is
\* that of the mode alone, and every signer call takes the branch of the mode.
C18_OneModeForLife ==
    /\ []ModeHeld
    /\ [][UNCHANGED <<keyType, sharedKey, sasKey, credHttpClient>>]_vars

\* A request signed with the shared key.
C18_Witness ==
    /\ keyType = "shared"
    /\ lastAuth.called
    /\ lastAuth.auth.scheme = "SharedKey"
    /\ Len(issued) > 0

CacheChanges ==
    \/ accessToken' # accessToken
    \/ accessTokenExpirationTime' # accessTokenExpirationTime

\* C19: the credential cache changes only in a signer call made in managed
\* identity mode at a time that has reached the stored expiry: every other signer
\* call, in any mode, and every await, entry and delete step leaves both fields
\* as they were.
C19_CacheFrame ==
    [][CacheChanges =>
          /\ keyType = "auto"
          /\ now >= accessTokenExpirationTime
          /\ lastAuth'.called
          /\ lastAuth'.fetched
          /\ lastAuth'.timeBegin = now
          /\ lastAuth'.expiryBefore = accessTokenExpirationTime
          /\ lastAuth'.tokenBefore = accessToken]_vars

\* A DELETE of the walk signed with the cached token, before its expiry.
C19_Witness ==
    /\ keyType = "auto"
    /\ op.name = "pathRemove"
    /\ lastAuth.called
    /\ ~lastAuth.fetched
    /\ lastAuth.timeBegin < lastAuth.expiryBefore
    /\ accessToken = lastAuth.tokenBefore
    /\ dataRequest # 0

\* The last signer call asked the credential endpoint and the answer was not a
\* success carrying both fields.
FetchFailed ==
    /\ keyType = "auto"
    /\ lastAuth.called
    /\ lastAuth.fetched
    /\ \/ ~httpResponseCodeOk(lastAuth.cred.code)
       \/ ~lastAuth.cred.hasToken
       \/ ~lastAuth.cred.hasExpires

\* C20: a failed token fetch raises out of the signer (the request error of the
\* endpoint's status on a non-success answer, a format error on a success answer
\* without the access token or without the expiry), leaves accessToken and
\* accessTokenExpirationTime as they were, and the request being signed is never
\* sent.
C20_FailedFetchRaises ==
    FetchFailed =>
        /\ lastAuth.err =
              IF ~httpResponseCodeOk(lastAuth.cred.code)
              THEN [kind |-> "credential", code |-> lastAuth.cred.code, verb |-> ""]
              ELSE [kind |-> "FormatError",
                    code |-> IF ~lastAuth.cred.hasToken THEN 230 ELSE 234, verb |-> ""]
        /\ pc = "failed"
        /\ error = lastAuth.err
        /\ accessToken = lastAuth.tokenBefore
        /\ accessTokenExpirationTime = lastAuth.expiryBefore
        /\ Len(issued) = lastAuth.issuedBefore

\* A refresh of a cached token met an answer with a token and no expiry.
C20_Witness ==
    /\ FetchFailed
    /\ httpResponseCodeOk(lastAuth.cred.code)
    /\ lastAuth.cred.hasToken
    /\ ~lastAuth.cred.hasExpires
    /\ lastAuth.tokenBefore # NoToken
    /\ pc = "failed"

\* The page whose marker the query of the listing holds: the last page served,
\* or the one before it while the last one's marker is not yet read or when it
\* names no next page.
MarkerPage ==
    IF served = <<>> THEN 0
    ELSE IF pc = "listParse" \/ ~HasMarker(served[Len(served)]) THEN Len(served) - 1
    ELSE Len(served)
SignerCopy(q) == IF q.null /\ sasKeySet THEN SomeQuery({}) ELSE q

\* C21: building a request leaves the header and the query of the caller as they
\* were, in every mode: the signer is handed a copy of the query, or a new empty
\* one when there is none and a SAS key is set.  The query of a listing holds the
\* delimiter, restype, comp and prefix keys it was made with and the marker of
\* the most recent page, and never the SAS parameters.
C21_CallerSetsUntouched ==
    /\ lastAuth.called =>
        /\ lastAuth.paramAfter.header = lastAuth.param.header
        /\ lastAuth.paramAfter.query = lastAuth.param.query
        /\ lastAuth.queryBefore = SignerCopy(lastAuth.param.query)
    /\ Listing =>
        /\ {p \in query : p[1] # "marker"} = ListQuery(op.path, op.exprPrefix, op.recurse)
        /\ {p \in query : p[1] = "marker"} =
              IF MarkerPage = 0 THEN {}
              ELSE {<<"marker", served[MarkerPage].marker.s>>}
        /\ \A p \in query : p[1] \in {"delimiter", "restype", "comp", "prefix", "marker"}
        /\ (op.name = "list" /\ lastAuth.called /\ pc # "failed") =>
              lastAuth.param.query = SomeQuery(query)

\* The third page of a listing in SAS mode has been asked for: the signed query
\* carries the SAS parameters and the marker, the query of the listing the
\* marker alone.
C21_Witness ==
    /\ keyType = "sas"
    /\ op.name = "list"
    /\ Len(served) = 2
    /\ request # 0
    /\ SasQuery \subseteq lastAuth.query.kv
    /\ <<"marker", served[2].marker.s>> \in lastAuth.query.kv
    /\ <<"marker", served[2].marker.s>> \in query
    /\ query \cap SasQuery = {}

\* The await of a list page or of a DELETE raised in a listing or a delete walk.
AwaitFailed == Listing /\ pc = "failed" /\ error.kind = "http"
RaisingStatus ==
    /\ lastResponse.awaited
    /\ ~httpResponseCodeOk(lastResponse.code)
    /\ ~lastResponse.allowMissing \/ lastResponse.code # HTTP_RESPONSE_CODE_NOT_FOUND

ListingAborted ==
    /\ (Listing /\ RaisingStatus) => AwaitFailed
    /\ AwaitFailed =>
        /\ RaisingStatus
        /\ error.code = lastResponse.code
        /\ result = NoResult
        /\ Outstanding(issued) = {}
        /\ request = 0
        /\ dataRequest = 0

\* C22: an await that raises ends the listing or the delete walk: the step that
\* raises issues no request and keeps the entries delivered so far (the entry
\* whose callback awaited the DELETE is the last one delivered), the call
\* returns no result, what was still outstanding is abandoned, and nothing
\* follows but the return of the error to the caller.
C22_AwaitFailureAborts ==
    /\ []ListingAborted
    /\ [][(Listing /\ pc # "failed" /\ pc' = "failed" /\ error'.kind = "http") =>
              /\ Len(issued') = Len(issued)
              /\ Len(delivered') >= Len(delivered)
              /\ SubSeq(delivered', 1, Len(delivered)) = delivered
              /\ Len(delivered') > Len(delivered) =>
                    (pc = "listEntries" /\ error'.verb = "DELETE"
                        /\ Len(delivered') = Len(delivered) + 1)]_vars
    /\ [][pc = "failed" => pc' = "idle"]_vars

\* A DELETE of the walk failed with the next page's request outstanding.
C22_Witness ==
    /\ AwaitFailed
    /\ op.name = "pathRemove"
    /\ error.verb = "DELETE"
    /\ Len(delivered) = 2
    /\ \E i \in Dropped : issued[i].verb = "GET"

\* Entry a of the pages served comes before entry b in the order of the claim:
\* an earlier page, or the same page and a prefix before a blob, or the same
\* kind and an earlier place in the page.
ListedBefore(a, b) ==
    \/ a[1] < b[1]
    \/ /\ a[1] = b[1]
       /\ \/ IsPrefix(ServedEntry(a)) /\ IsBlob(ServedEntry(b))
          \/ ServedEntry(a).kind = ServedEntry(b).kind /\ a[2] < b[2]

\* C23: the callbacks of a listing run page by page in continuation order and,
\* within a page, for every prefix before every blob, each group in the order of
\* the page: an entry reaches the callback only after those that come before it.
C23_PagesThenPrefixesThenBlobs ==
    Listing =>
        \A a, b \in ServedPositions :
            ListedBefore(a, b) =>
                \A j \in DeliveriesOf(b) : \E i \in DeliveriesOf(a) : i < j

\* Two pages of one entry each have been handed to the callback.
C23_Witness ==
    /\ op.name = "list"
    /\ Len(served) = 2
    /\ Len(served[1].entries) = 1
    /\ Len(served[2].entries) = 1
    /\ Len(delivered) = 2

SamePage(a, b) == a[1] = b[1]

\* C24 as stated: two entries of a page reach the callback in the order the
\* server returned them, whatever their kinds.
C24_DocumentOrder ==
    Listing =>
        \A a, b \in ServedPositions :
            (SamePage(a, b) /\ a[2] < b[2]) =>
                \A j \in DeliveriesOf(b) : \E i \in DeliveriesOf(a) : i < j

\* C24: two entries of a page of the same kind reach the callback in the order
\* the server returned them; a prefix reaches it before every blob of its page,
\* also when the server returned the blob first.
C24_OrderWithinKind ==
    Listing =>
        \A a, b \in ServedPositions :
            SamePage(a, b) =>
                /\ (ServedEntry(a).kind = ServedEntry(b).kind /\ a[2] < b[2]) =>
                      \A j \in DeliveriesOf(b) : \E i \in DeliveriesOf(a) : i < j
                /\ (IsBlob(ServedEntry(a)) /\ IsPrefix(ServedEntry(b)) /\ a[2] < b[2]) =>
                      \A i \in DeliveriesOf(a) : \E j \in DeliveriesOf(b) : j < i

\* A page that lists a blob before a prefix has been handed to the callback.
C24_Witness ==
    /\ op.name = "list"
    /\ Len(served) = 1
    /\ Len(served[1].entries) = 2
    /\ IsBlob(served[1].entries[1])
    /\ IsPrefix(served[1].entries[2])
    /\ Len(delivered) = 2

\* C25 as stated: of two write constructions on a driver the later one receives
\* the larger file id, whatever the starting value of the counter.
C25_IdsIncrease ==
    \A i, j \in DOMAIN written : i < j => written[i] < written[j]

\* The counter passed its largest value between constructions i and j.
Wrapped(i, j) == \E k \in i..(j - 1) : written[k] = FileIdModulus - 1

IdsSuccessive ==
    /\ \A i \in DOMAIN written : written[i] = (written[1] + i - 1) % FileIdModulus
    /\ written # <<>> => fileId = (written[Len(written)] + 1) % FileIdModulus
    /\ \A i, j \in DOMAIN written :
          i < j =>
              /\ j - i < FileIdModulus => written[i] # written[j]
              /\ ~Wrapped(i, j) => written[i] < written[j]

\* C25: every write construction passes the current value of the counter to the
\* write object and then adds one to it modulo the width of the counter, and
\* nothing else changes it: the ids of the constructions are successive, two
\* constructions fewer than the modulus apart receive different ids, and the
\* later of two receives the larger id unless the counter wrapped in between.
C25_IdsSuccessiveModulo ==
    /\ []IdsSuccessive
    /\ [][(fileId' # fileId \/ written' # written) =>
              /\ written' = Append(written, fileId)
              /\ fileId' = (fileId + 1) % FileIdModulus
              /\ pc = "idle" /\ pc' = "idle"]_vars

\* The counter wrapped between two write constructions.
C25_Witness ==
    /\ Len(written) >= 2
    /\ written[Len(written)] < written[1]
    /\ fileId = written[Len(written)] + 1

\* C26: a listing whose requests are all answered with success, the last of
\* them by a page that names no next page, returns; it has then issued one
\* request per page served and none after the page without a marker; and the
\* loop goes round again exactly when a request for a next page is outstanding,
\* which is exactly when the page carried a marker.
C26_ListingReturns ==
    /\ [](pc # "failed") => ((op.name = "list") ~> (op.name = "list" /\ pc = "done"))
    /\ [](op.name = "list" /\ pc = "done" =>
            /\ ~PageNames(served[Len(served)])
            /\ \A k \in 1..(Len(served) - 1) : PageNames(served[k])
            /\ Len(ListRequestSeq) = Len(served)
            /\ Outstanding(issued) = {})
    /\ [][(pc = "listEntries" /\ pc' # "listEntries") =>
              /\ (pc' = "listTop") = (request # 0)
              /\ (pc' = "done") = (request = 0)
              /\ (request # 0) = PageNames(page)]_vars

\* A listing returned after its third page.
C26_Witness ==
    /\ op.name = "list"
    /\ pc = "done"
    /\ Len(served) = 3

\* C27: the header list handed to the signer always holds Content-Length, which
\* is "0" exactly when the request has no body or an empty one; it holds
\* Content-MD5 exactly when the request has a body, empty or not; and it holds
\* the tag header exactly when tags were asked for and the driver has tags.
C27_RequestHeaders ==
    lastAuth.called =>
        /\ HttpHas(lastAuth.headerBefore, "content-length")
        /\ (HttpGet(lastAuth.headerBefore, "content-length") = <<"0">>)
              = (lastAuth.param.content.null \/ lastAuth.param.content.size = 0)
        /\ HttpHas(lastAuth.headerBefore, "content-md5") = ~lastAuth.param.content.null
        /\ HttpHas(lastAuth.headerBefore, "x-ms-tags") = (lastAuth.param.tag /\ ~tag.null)
        /\ \A p \in lastAuth.headerBefore :
              \/ p[1] \in {"content-length", "content-md5", "x-ms-tags"}
              \/ ~lastAuth.param.header.null /\ p \in lastAuth.param.header.kv

\* A request with an empty body and tags on a driver that has tags.
C27_Witness ==
    /\ lastAuth.called
    /\ ~lastAuth.param.content.null
    /\ lastAuth.param.content.size = 0
    /\ lastAuth.param.tag
    /\ ~tag.null
    /\ <<"x-ms-tags", tag.s>> \in lastAuth.headerBefore
    /\ <<"content-length", <<"0">>>> \in lastAuth.headerBefore

\* C28: in managed identity mode a request is sent only by a signer call that
\* did not raise, an operation that has sent a request has a token fetched with
\* success in the cache, and the request carries Authorization "Bearer" with the
\* token the cache holds once the signer has run: the token it has just fetched
\* when it fetched, the cached one otherwise.
C28_BearerTokenCurrent ==
    keyType = "auto" =>
        /\ issued # <<>> => accessToken # NoToken
        /\ lastAuth.called =>
            /\ Len(issued) > lastAuth.issuedBefore => lastAuth.err = NoError
            /\ lastAuth.err = NoError =>
                /\ <<"authorization", <<"Bearer">>>> \in lastAuth.header
                /\ lastAuth.auth.scheme = "Bearer"
                /\ lastAuth.auth.token # NoToken
                /\ lastAuth.auth.token = accessToken
                /\ lastAuth.fetched =>
                      lastAuth.auth.token = [at |-> lastAuth.timeBegin,
                                             ttl |-> lastAuth.cred.expiresIn]
                /\ ~lastAuth.fetched => lastAuth.auth.token = lastAuth.tokenBefore

\* A later request of a listing was signed with a token fetched for it, in place
\* of the one the cache held.
C28_Witness ==
    /\ keyType = "auto"
    /\ Listing
    /\ Len(issued) >= 2
    /\ lastAuth.fetched
    /\ lastAuth.err = NoError
    /\ lastAuth.tokenBefore # NoToken
    /\ lastAuth.tokenBefore # accessToken
    /\ Len(issued) = lastAuth.issuedBefore + 1

\* C29: a recursive path removal never has more than two requests issued and
\* not yet awaited, at most one of them the request for the next page and at
\* most one a DELETE; the DELETE still outstanding when an entry is visited or
\* when the listing has returned is awaited there, so that none is outstanding
\* when the removal returns.
C29_TwoOutstandingInWalk ==
    /\ [](op.name = "pathRemove" =>
            /\ Cardinality(Outstanding(issued)) <= 2
            /\ Cardinality(OutstandingOf("GET")) <= 1
            /\ OutstandingOf("GET") \subseteq {request, syncRequest}
            /\ OutstandingOf("DELETE") \subseteq {dataRequest}
            /\ pc = "done" => Outstanding(issued) = {})
    /\ [][(op.name = "pathRemove" /\ dataRequest # 0
              /\ (Len(delivered') > Len(delivered) \/ (pc = "removeFinal" /\ pc' # pc))) =>
              /\ issued[dataRequest].fate = "outstanding"
              /\ issued'[dataRequest].fate \in {"awaited", "freed"}
              /\ lastResponse'.awaited
              /\ lastResponse'.allowMissing]_vars

\* The DELETE of the last file of a page is outstanding while the walk is about
\* to await the next page.
C29_Witness ==
    /\ op.name = "pathRemove"
    /\ pc = "listTop"
    /\ request \in OutstandingOf("GET")
    /\ dataRequest \in OutstandingOf("DELETE")
    /\ Len(served) >= 1
    /\ delivered # <<>>
    /\ delivered[Len(delivered)].type = "file"

\* The await of a DELETE of the walk raised.
DeleteFailed == op.name = "pathRemove" /\ pc = "failed" /\ error.kind = "http" /\ error.verb = "DELETE"
DeleteTolerated(code) == httpResponseCodeOk(code) \/ code = HTTP_RESPONSE_CODE_NOT_FOUND

\* C30: a DELETE of the walk is issued only once every DELETE before it has been
\* awaited and answered with success or not-found; a DELETE answered otherwise
\* raises where it is awaited, at the visit of the next entry or after the
\* listing for the last file, and no DELETE is issued from then on.
C30_DeleteAfterDelete ==
    /\ [](/\ (op.name = "pathRemove" /\ lastResponse.awaited /\ lastResponse.allowMissing
                  /\ ~DeleteTolerated(lastResponse.code)) => DeleteFailed
          /\ DeleteFailed =>
                /\ ~DeleteTolerated(lastResponse.code)
                /\ error.code = lastResponse.code
                /\ \A i \in DeleteHandles :
                      issued[i].fate = IF \E j \in DeleteHandles : i < j
                                       THEN "freed" ELSE "awaited"
                /\ \/ Len(VisitedFiles) = Cardinality(DeleteHandles) + 1
                   \/ delivered[Len(delivered)].type = "path"
                   \/ /\ Len(delivered) = EntryCount(served)
                      /\ ~PageNames(served[Len(served)]))
    /\ [][(op.name = "pathRemove" /\ Len(DeleteRequests') > Len(DeleteRequests)) =>
              /\ Len(DeleteRequests') = Len(DeleteRequests) + 1
              /\ \A i \in DeleteHandles : issued'[i].fate = "freed"
              /\ dataRequest # 0 =>
                    /\ lastResponse'.awaited
                    /\ DeleteTolerated(lastResponse'.code)
              /\ pc' # "failed"]_vars
    /\ [][(op.name = "pathRemove" /\ pc' = "failed") =>
              Len(DeleteRequests') = Len(DeleteRequests)]_vars

\* The second DELETE of a walk was issued after the first was found missing.
C30_Witness ==
    /\ op.name = "pathRemove"
    /\ Cardinality(DeleteHandles) = 2
    /\ dataRequest \in OutstandingOf("DELETE")
    /\ lastResponse.awaited
    /\ lastResponse.allowMissing
    /\ lastResponse.code = HTTP_RESPONSE_CODE_NOT_FOUND
    /\ missing.callback

\* C31: the signer is never handed an absent query with a SAS key, nor a
\* present but empty one with a shared key. Whatever the operation (info, list,
\* remove, path removal, a request of a caller) and whether or not it passes a
\* query, with a SAS key the query handed to storageAzureAuth exists, is the
\* caller's or a new empty one, and comes back holding the SAS parameters; with
\* a shared key it is the caller's, absent or with at least one key, and the
\* assertion of line 162 never fails.
C31_SignerQueryPresent ==
    lastAuth.called =>
        /\ keyType = "sas" =>
              /\ ~lastAuth.queryBefore.null
              /\ lastAuth.queryBefore.kv = lastAuth.param.query.kv
              /\ ~lastAuth.query.null
              /\ SasQuery \subseteq lastAuth.query.kv
        /\ keyType = "shared" =>
              /\ lastAuth.queryBefore = lastAuth.param.query
              /\ ~lastAuth.queryBefore.null => lastAuth.queryBefore.kv # {}
              /\ lastAuth.err.kind # "AssertError"
              /\ error.kind # "AssertError"

\* With a SAS key, the DELETE of a path removal passed no query and the signer
\* was handed a new empty one, which came back holding the SAS parameters only.
C31_Witness ==
    /\ keyType = "sas"
    /\ op.name = "pathRemove"
    /\ lastAuth.called
    /\ dataRequest # 0
    /\ issued[dataRequest].verb = "DELETE"
    /\ lastAuth.param.query.null
    /\ lastAuth.queryBefore = SomeQuery({})
    /\ lastAuth.query = SomeQuery(SasQuery)
    /\ issued[dataRequest].query = lastAuth.query

====
